---------------------------- MODULE Spec2Model ----------------------------
(***************************************************************************)
(* A model of the secret-santa server (src/src/main.rs): the form parser   *)
(* Draft::from_form, the solver Draft::calculate_tickets with its helper   *)
(* find_ticket, and the store Drafts = RwLock<Vec<Draft>> with the         *)
(* handlers that read and append to it.                                    *)
(*                                                                         *)
(* A Rust String is a sequence of one-character strings, Option<T> is the  *)
(* empty set (None) or a singleton (Some), a HashSet is a set.  Every      *)
(* request runs on a worker p; the locals of from_form and of              *)
(* calculate_tickets are functions of p.                                   *)
(***************************************************************************)
EXTENDS Integers, Sequences, FiniteSets, TLC

---------------------------------------------------------------------------
(* Bounds of the model *)

\* items a submitted form may carry
MaxItems == 6
\* requests the sequential server admits (each may append one draft)
MaxDrafts == 1
\* requests the concurrent server admits
MaxPosts == 2
\* team tags 1..MaxTeam of the registries the solver is started on directly
MaxTeam == 3
\* the recursion depth of calculate_tickets is counted up to MaxDepth
MaxDepth == 1

Workers == {1, 2}

\* names, titles and dates that forms carry
NameA == <<"A">>
NameB == <<"B">>
NameC == <<"C">>
NameD == <<"D">>
Names == {NameA, NameB, NameC, NameD}
Teams == 1..MaxTeam

\* the (key, value) items the forms of the sequential server carry, in any order
Items ==
    {<<"title", v>> : v \in {<<>>, <<"T">>}}
    \cup {<<"date", v>> : v \in {<<>>, <<"D">>}}
    \cup {<<"name", v>> : v \in {<<>>, NameA, NameB}}
    \cup {<<"team", v>> : v \in {<<>>, <<"1">>, <<"2">>, <<"3">>, <<"+", "1">>, <<"x">>}}
    \cup {<<"bogus", <<"T">>>>}

\* the items the forms of the concurrent server carry: worker 1 receives forms
\* of A and B in two teams, worker 2 forms that enter C under up to three teams
ItemsConc(p) ==
    IF p = 1
    THEN {<<"name", NameA>>, <<"name", NameB>>, <<"team", <<"1">>>>, <<"team", <<"2">>>>}
    ELSE {<<"name", NameC>>, <<"team", <<"1">>>>, <<"team", <<"2">>>>, <<"team", <<"3">>>>}

\* the items the forms of the concurrent server with readers carry: worker 1
\* receives forms that enter A under up to two teams, worker 2 forms that
\* enter C under up to three teams
ItemsStore(p) ==
    IF p = 1
    THEN {<<"name", NameA>>, <<"team", <<"1">>>>, <<"team", <<"2">>>>}
    ELSE {<<"name", NameC>>, <<"team", <<"1">>>>, <<"team", <<"2">>>>, <<"team", <<"3">>>>}

\* the items of the forms posted to the server whose tickets are looked up
ItemsLookup ==
    {<<"name", NameA>>, <<"name", NameB>>,
     <<"team", <<"1">>>>, <<"team", <<"2">>>>, <<"team", <<"3">>>>}

---------------------------------------------------------------------------
(* Option and Result values *)

None == {}
Some(v) == {v}
Unwrap(o) == CHOOSE v \in o : TRUE

Pending == [tag |-> "Pending", err |-> "", id |-> 0]
Err(e) == [tag |-> "Err", err |-> e, id |-> 0]
Posted(i) == [tag |-> "Ok", err |-> "", id |-> i]
Panicked == [tag |-> "Panic", err |-> "", id |-> 0]

\* the answer of a GET handler: the handler, its path parameters, its Json body
Answer(h, id, n, json) == [handler |-> h, draft |-> id, name |-> n, json |-> json]
NoResponse == Answer("", 0, <<>>, None)

Range(s) == {s[i] : i \in 1..Len(s)}

\* all orders in which a set can be iterated
Orders(S) ==
    {s \in [1..Cardinality(S) -> S] : \A i, j \in 1..Cardinality(S) : s[i] = s[j] => i = j}

---------------------------------------------------------------------------
(* u32::from_str_radix(src, 10) on inputs of at most nine digits: an       *)
(* optional leading "+", then one or more decimal digits.                  *)

DigitOf(c) ==
    CASE c = "0" -> 0 [] c = "1" -> 1 [] c = "2" -> 2 [] c = "3" -> 3 [] c = "4" -> 4
      [] c = "5" -> 5 [] c = "6" -> 6 [] c = "7" -> 7 [] c = "8" -> 8 [] c = "9" -> 9
      [] OTHER -> -1

RECURSIVE ParseDigits(_, _)
ParseDigits(s, acc) ==
    IF s = <<>> THEN Some(acc)
    ELSE IF DigitOf(Head(s)) < 0 THEN None
    ELSE ParseDigits(Tail(s), acc * 10 + DigitOf(Head(s)))

from_str_radix(src) ==
    IF src = <<>> THEN None
    ELSE LET digits == IF Head(src) = "+" THEN Tail(src) ELSE src
         IN  IF digits = <<>> THEN None ELSE ParseDigits(digits, 0)

---------------------------------------------------------------------------
(* Member and Draft *)

Member(n, t) == [name |-> n, team |-> t, ticket |-> None]

EmptyDraft == [title |-> <<>>, date |-> <<>>, members |-> {}]

\* HashSet::insert keeps the set as it is when an equal member is in it.
\* Eq is derived from all three fields; Hash reads the name only.
HashSetInsert(members, m) ==
    IF \E o \in members : o = m THEN members ELSE members \cup {m}

\* team_possibilities without its filter: every member counts
team_possibilities_All(members, team) == Cardinality(members)

team_possibilities(members, team) == Cardinality({m \in members : m.team # team})

team_len(members, team) == Cardinality({m \in members : m.team = team})

\* the feasibility test with <= for <
Infeasible_Le(members) ==
    \E member \in members :
        team_possibilities(members, member.team) <= team_len(members, member.team)

\* the feasibility test with > for <
Infeasible_Reversed(members) ==
    \E member \in members :
        team_possibilities(members, member.team) > team_len(members, member.team)

\* the find(..) at the start of calculate_tickets yields Some(_)
Infeasible(members) ==
    \E member \in members :
        team_possibilities(members, member.team) < team_len(members, member.team)

\* find_ticket taking one fixed entry (entries.first()) instead of entries.choose(..)
Entries_First(members, member, usedSeq) ==
    LET entries == {other \in members :
                        member # other /\ member.team # other.team /\ other \notin Range(usedSeq)}
    IN  IF entries = {} THEN {} ELSE {CHOOSE other \in entries : TRUE}

\* find_ticket without the `!used.contains(other)` test
Entries_IgnoreUsed(members, member, usedSeq) ==
    {other \in members : member # other /\ member.team # other.team}

\* the entries find_ticket chooses from
Entries(members, member, usedSeq) ==
    {other \in members :
        member # other /\ member.team # other.team /\ other \notin Range(usedSeq)}

\* the closure returning another variant of DraftError
ClosureError_Other == "NoTeamOrNameDefined"

\* the error the closure of calculate_tickets returns when find_ticket finds nothing
ClosureError == "CalculateAgain"

\* calculate_tickets without the retrying arm
Retried_Never(e) == FALSE

\* the arm `Err(DraftError::CalculateAgain) => self.calculate_tickets()`
Retried(e) == e = "CalculateAgain"

\* the closure also copying the team of the ticket into the new member
WithTicket_Moved(member, ticket) ==
    [member EXCEPT !.ticket = Some(ticket.name), !.team = ticket.team]

\* the member the closure of calculate_tickets pushes for `member` and `ticket`
WithTicket(member, ticket) == [member EXCEPT !.ticket = Some(ticket.name)]

---------------------------------------------------------------------------
VARIABLES
    drafts,     \* the store: Vec<Draft> behind the RwLock
    pc,         \* pc[p]: where worker p's request stands
    draft,      \* draft[p]: the draft from_form builds
    name,       \* name[p]: from_form's pending name (Option<String>)
    taken,      \* taken[p]: the number of items from_form has taken from the form
    order,      \* order[p]: the iteration order of draft[p].members
    used,       \* used[p]: calculate_tickets' used vector
    calulated,  \* calulated[p]: the members the map closure has produced
    depth,      \* depth[p]: nesting of calculate_tickets calls, counted to MaxDepth
    result,     \* result[p]: what the last request of worker p returned
    response    \* what the latest GET request was answered

vars == <<drafts, pc, draft, name, taken, order, used, calulated, depth, result, response>>

\* the locals of the POST requests
postVars == <<pc, draft, name, taken, order, used, calulated, depth, result>>

solverVars == <<order, used, calulated, depth>>

Idle(p) ==
    /\ pc' = [pc EXCEPT ![p] = "idle"]
    /\ draft' = [draft EXCEPT ![p] = EmptyDraft]
    /\ name' = [name EXCEPT ![p] = None]
    /\ taken' = [taken EXCEPT ![p] = 0]
    /\ order' = [order EXCEPT ![p] = <<>>]
    /\ used' = [used EXCEPT ![p] = <<>>]
    /\ calulated' = [calulated EXCEPT ![p] = {}]
    /\ depth' = [depth EXCEPT ![p] = 0]

Init ==
    /\ drafts = <<>>
    /\ pc = [p \in Workers |-> "idle"]
    /\ draft = [p \in Workers |-> EmptyDraft]
    /\ name = [p \in Workers |-> None]
    /\ taken = [p \in Workers |-> 0]
    /\ order = [p \in Workers |-> <<>>]
    /\ used = [p \in Workers |-> <<>>]
    /\ calulated = [p \in Workers |-> {}]
    /\ depth = [p \in Workers |-> 0]
    /\ result = [p \in Workers |-> Pending]
    /\ response = NoResponse

---------------------------------------------------------------------------
(* Draft::from_form *)

\* a POST arrives: from_form starts with an empty draft and no pending name
StartRequest(p, cap) ==
    /\ pc[p] = "idle"
    /\ Len(drafts) + Cardinality({q \in Workers : pc[q] # "idle"}) < cap
    /\ pc' = [pc EXCEPT ![p] = "items"]
    /\ draft' = [draft EXCEPT ![p] = EmptyDraft]
    /\ name' = [name EXCEPT ![p] = None]
    /\ result' = [result EXCEPT ![p] = Pending]
    /\ UNCHANGED <<response, drafts, taken, solverVars>>

Reject(p, e) ==
    /\ result' = [result EXCEPT ![p] = e]
    /\ Idle(p)
    /\ UNCHANGED <<response, drafts>>

\* one turn of the loop over the form's items
ParseItem(p, item) ==
    LET key == item[1]
        value == item[2]
        Continue == /\ taken' = [taken EXCEPT ![p] = @ + 1]
                    /\ UNCHANGED <<response, drafts, pc, solverVars, result>>
    IN
    /\ pc[p] = "items"
    /\ taken[p] < MaxItems
    /\ IF value = <<>> THEN Reject(p, Err("InvalidData"))
       ELSE IF key = "title" THEN
            /\ draft' = [draft EXCEPT ![p].title = value]
            /\ UNCHANGED name
            /\ Continue
       ELSE IF key = "date" THEN
            /\ draft' = [draft EXCEPT ![p].date = value]
            /\ UNCHANGED name
            /\ Continue
       ELSE IF key = "name" THEN
            /\ name' = [name EXCEPT ![p] = Some(value)]
            /\ UNCHANGED draft
            /\ Continue
       ELSE IF key = "team" THEN
            IF name[p] = None THEN Reject(p, Err("InvalidData"))
            ELSE IF from_str_radix(value) = None THEN Reject(p, Panicked)
            ELSE LET m == Member(Unwrap(name[p]), Unwrap(from_str_radix(value)))
                 IN  /\ draft' = [draft EXCEPT ![p].members = HashSetInsert(@, m)]
                     /\ name' = [name EXCEPT ![p] = None]
                     /\ Continue
       ELSE Reject(p, Err("InvalidData"))

\* the items are exhausted: from_form calls draft.calculate_tickets()
EndItems(p) ==
    /\ pc[p] = "items"
    /\ pc' = [pc EXCEPT ![p] = "calc"]
    /\ name' = [name EXCEPT ![p] = None]
    /\ taken' = [taken EXCEPT ![p] = 0]
    /\ \E o \in Orders(draft[p].members) : order' = [order EXCEPT ![p] = o]
    /\ UNCHANGED <<response, drafts, draft, used, calulated, depth, result>>

---------------------------------------------------------------------------
(* Draft::calculate_tickets *)

\* entry of calculate_tickets: the feasibility check, then `used = Vec::new()`
CheckFeasible(p) ==
    /\ pc[p] = "calc"
    /\ IF Infeasible(draft[p].members)
       THEN Reject(p, Err("NotEnoughPossibilities"))
       ELSE /\ pc' = [pc EXCEPT ![p] = "draw"]
            /\ used' = [used EXCEPT ![p] = <<>>]
            /\ calulated' = [calulated EXCEPT ![p] = {}]
            /\ UNCHANGED <<response, drafts, draft, name, taken, order, depth, result>>

\* the member the map closure is called on next
Current(p) == order[p][Len(used[p]) + 1]

\* the closure on the next member, find_ticket choosing `ticket`
Draw(p, ticket) ==
    /\ pc[p] = "draw"
    /\ Len(used[p]) < Len(order[p])
    /\ ticket \in Entries(draft[p].members, Current(p), used[p])
    /\ used' = [used EXCEPT ![p] = Append(@, ticket)]
    /\ calulated' = [calulated EXCEPT ![p] = @ \cup {WithTicket(Current(p), ticket)}]
    /\ UNCHANGED <<response, drafts, pc, draft, name, taken, order, depth, result>>

\* Restart with the new call working on the used vector and the members of the old one
Restart_KeepUsed(p) ==
    /\ pc[p] = "draw"
    /\ Len(used[p]) < Len(order[p])
    /\ Entries(draft[p].members, Current(p), used[p]) = {}
    /\ pc' = [pc EXCEPT ![p] = "calc"]
    /\ depth' = [depth EXCEPT ![p] = IF @ < MaxDepth THEN @ + 1 ELSE @]
    /\ UNCHANGED <<response, drafts, draft, name, taken, order, used, calulated, result>>

\* find_ticket returns None: the closure returns Err(ClosureError), collect() stops,
\* and the match either calls calculate_tickets again or hands the error back
Restart(p) ==
    /\ pc[p] = "draw"
    /\ Len(used[p]) < Len(order[p])
    /\ Entries(draft[p].members, Current(p), used[p]) = {}
    /\ IF Retried(ClosureError)
       THEN /\ pc' = [pc EXCEPT ![p] = "calc"]
            /\ used' = [used EXCEPT ![p] = <<>>]
            /\ calulated' = [calulated EXCEPT ![p] = {}]
            /\ depth' = [depth EXCEPT ![p] = IF @ < MaxDepth THEN @ + 1 ELSE @]
            /\ UNCHANGED <<response, drafts, draft, name, taken, order, result>>
       ELSE Reject(p, Err(ClosureError))

\* Finish without `self.members = members`
Finish_KeepMembers(p) ==
    /\ pc[p] = "draw"
    /\ Len(used[p]) = Len(order[p])
    /\ pc' = [pc EXCEPT ![p] = "post"]
    /\ UNCHANGED <<response, drafts, draft, name, taken, order, used, calulated, depth, result>>

\* collect() yields Ok(members): self.members = members, Ok(()) up to from_form
Finish(p) ==
    /\ pc[p] = "draw"
    /\ Len(used[p]) = Len(order[p])
    /\ draft' = [draft EXCEPT ![p].members = calulated[p]]
    /\ pc' = [pc EXCEPT ![p] = "post"]
    /\ UNCHANGED <<response, drafts, name, taken, order, used, calulated, depth, result>>

---------------------------------------------------------------------------
(* The store *)

\* api_post_draft pushing the draft another request is working on
PostDraft_Other(p) ==
    /\ pc[p] = "post"
    /\ drafts' = Append(drafts, draft[CHOOSE q \in Workers : q # p])
    /\ result' = [result EXCEPT ![p] = Posted(Len(drafts') - 1)]
    /\ Idle(p)
    /\ UNCHANGED response

\* api_post_draft inserting at the front of the vector
PostDraft_Front(p) ==
    /\ pc[p] = "post"
    /\ drafts' = <<draft[p]>> \o drafts
    /\ result' = [result EXCEPT ![p] = Posted(Len(drafts') - 1)]
    /\ Idle(p)
    /\ UNCHANGED response

\* api_post_draft: push under the write lock, answer the new index
PostDraft(p) ==
    /\ pc[p] = "post"
    /\ drafts' = Append(drafts, draft[p])
    /\ result' = [result EXCEPT ![p] = Posted(Len(drafts') - 1)]
    /\ Idle(p)
    /\ UNCHANGED response

\* Vec::get: the element at a 0-based index
Get(vec, index) == IF index < Len(vec) THEN Some(vec[index + 1]) ELSE None

\* api_drafts: the whole vector, read under the read lock
api_drafts ==
    /\ response' = Answer("api_drafts", 0, <<>>, Some(drafts))
    /\ UNCHANGED <<drafts, postVars>>

\* api_draft: a clone of the draft at index `id`, or None
api_draft(id) ==
    /\ response' = Answer("api_draft", id, <<>>, Get(drafts, id))
    /\ UNCHANGED <<drafts, postVars>>

\* api_draft_ticket: the ticket of the first member that iter().find(..) meets
\* with the name asked for; the HashSet decides which one it meets first
api_draft_ticket(id, n) ==
    /\ IF Get(drafts, id) = None
       THEN response' = Answer("api_draft_ticket", id, n, None)
       ELSE LET found == {member \in Unwrap(Get(drafts, id)).members : member.name = n}
            IN  IF found = {}
                THEN response' = Answer("api_draft_ticket", id, n, None)
                ELSE \E member \in found :
                        response' = Answer("api_draft_ticket", id, n, member.ticket)
    /\ UNCHANGED <<drafts, postVars>>

---------------------------------------------------------------------------
(* Specifications *)

\* the steps of one request of worker p whose form carries items of `items`,
\* the server admitting `cap` requests
Request(p, items, cap) ==
    \/ StartRequest(p, cap)
    \/ \E item \in items : ParseItem(p, item)
    \/ EndItems(p)
    \/ CheckFeasible(p)
    \/ \E ticket \in draft[p].members : Draw(p, ticket)
    \/ Restart(p)
    \/ Finish(p)
    \/ PostDraft(p)

\* the sequential server: one request at a time
Next == Request(1, Items, MaxDrafts)

Spec == Init /\ [][Next]_vars

\* the concurrent server: the requests of the workers interleave
NextConc == \E p \in Workers : Request(p, ItemsConc(p), MaxPosts)

SpecConc == Init /\ [][NextConc]_vars

\* the indices and names the GET requests ask for: every index of the store
\* and one past it, the names of the looked-up forms and one they do not carry
Ids == 0..MaxPosts
Asked == {NameA, NameB, NameD}

\* a GET request for the list or for one draft is answered
ReadStore ==
    \/ api_drafts
    \/ \E id \in Ids : api_draft(id)

\* a GET request for the ticket of a name is answered
Lookup == \E id \in Ids : \E n \in Asked : api_draft_ticket(id, n)

\* the concurrent server with readers: POST requests interleave with GET
\* requests for the list and for single drafts
NextStore == (\E p \in Workers : Request(p, ItemsStore(p), MaxPosts)) \/ ReadStore

SpecStore == Init /\ [][NextStore]_vars

\* the sequential server with all its GET handlers, its forms entering A and B
\* under up to three teams
NextLookup == Request(1, ItemsLookup, MaxDrafts) \/ ReadStore \/ Lookup

SpecLookup == Init /\ [][NextLookup]_vars

---------------------------------------------------------------------------
(* The solver alone, started on every registry of uniquely named members   *)
(* with teams in Teams and on every iteration order of it.                 *)

Registries ==
    UNION {{ {Member(n, f[n]) : n \in S} : f \in [S -> Teams]} : S \in SUBSET Names}

InitSolve ==
    /\ drafts = <<>>
    /\ \E members \in Registries :
        /\ draft = [p \in Workers |->
                IF p = 1 THEN [title |-> <<"T">>, date |-> <<"D">>, members |-> members]
                ELSE EmptyDraft]
        /\ \E o \in Orders(members) : order = [p \in Workers |-> IF p = 1 THEN o ELSE <<>>]
    /\ pc = [p \in Workers |-> IF p = 1 THEN "calc" ELSE "idle"]
    /\ name = [p \in Workers |-> None]
    /\ taken = [p \in Workers |-> 0]
    /\ used = [p \in Workers |-> <<>>]
    /\ calulated = [p \in Workers |-> {}]
    /\ depth = [p \in Workers |-> 0]
    /\ result = [p \in Workers |-> Pending]
    /\ response = NoResponse

NextSolve ==
    \/ CheckFeasible(1)
    \/ \E ticket \in draft[1].members : Draw(1, ticket)
    \/ Restart(1)
    \/ Finish(1)

SpecSolve == InitSolve /\ [][NextSolve]_vars

\* some sequence of draws completes the attempt that stands at `usedSeq`
RECURSIVE Completable(_, _, _)
Completable(members, ord, usedSeq) ==
    IF Len(usedSeq) = Len(ord) THEN TRUE
    ELSE \E ticket \in Entries(members, ord[Len(usedSeq) + 1], usedSeq) :
            Completable(members, ord, Append(usedSeq, ticket))

\* the k-th draw of an attempt picks a candidate that leaves the attempt completable
LuckyDraw(k) ==
    /\ Len(used[1]) = k - 1
    /\ \E ticket \in draft[1].members :
        /\ Draw(1, ticket)
        /\ Completable(draft[1].members, order[1], used'[1])

\* The solver never pauses, and entries.choose draws uniformly and independently
\* of earlier draws: in a situation met again and again every candidate is drawn
\* again and again, so in particular one that leaves the attempt completable.
FairDraws == \A k \in 1..Cardinality(Names) : SF_vars(LuckyDraw(k))

SpecSolveFair ==
    /\ SpecSolve
    /\ WF_vars(CheckFeasible(1))
    /\ WF_vars(\E ticket \in draft[1].members : Draw(1, ticket))
    /\ WF_vars(Restart(1))
    /\ WF_vars(Finish(1))
    /\ FairDraws

---------------------------------------------------------------------------
(* Helpers of the properties *)

NamesOf(members) == {m.name : m \in members}

UniqueNames(members) == \A m, o \in members : m.name = o.name => m = o

\* some team present has more members than there are members outside it
TeamTooLarge(members) ==
    \E t \in {m.team : m \in members} :
        LET size == Cardinality({m \in members : m.team = t})
        IN  size > Cardinality(members) - size

\* a bijection on the members without self edge and without same-team edge exists
ExistsValid(members) ==
    \E f \in [members -> members] :
        /\ \A m, o \in members : f[m] = f[o] => m = o
        /\ \A m \in members : f[m] # m /\ f[m].team # m.team

\* the registry the solver of worker 1 was started on
Registry == Range(order[1])

AllDistinctTeams(members) == \A m, o \in members : m.team = o.team => m = o

\* the (name, team) pairs of a set of members
Pairs(members) == {<<m.name, m.team>> : m \in members}

\* the tickets of `solved` are a valid assignment on the registry `orig`
ValidTickets(orig, solved) ==
    /\ Pairs(solved) = Pairs(orig)
    /\ \A n \in NamesOf(orig) :
        /\ Cardinality({m \in solved : m.name = n}) = 1
        /\ Cardinality({m \in solved : m.ticket = Some(n)}) = 1
    /\ \A m \in solved :
        /\ m.ticket # None
        /\ m.ticket # Some(m.name)
        /\ \A o \in orig : m.ticket = Some(o.name) => o.team # m.team

---------------------------------------------------------------------------
(* Properties of the solver (SpecSolve, SpecSolveFair) *)

\* C1: whenever calculate_tickets returns success on a registry of uniquely
\* named members, the tickets are a bijection on the members: every member has
\* exactly one ticket, is the ticket of exactly one member, and no ticket is
\* the member itself or a member of its own team.
C1_ValidAssignment ==
    (pc[1] = "post" /\ UniqueNames(Registry)) => ValidTickets(Registry, draft[1].members)

\* success on four members, two of them in one team, after a restart
C1_Witness ==
    /\ pc[1] = "post"
    /\ Cardinality(Registry) = 4
    /\ ~AllDistinctTeams(Registry)
    /\ depth[1] > 0
    /\ ValidTickets(Registry, draft[1].members)

\* C2: the feasibility check at the start of calculate_tickets returns
\* NotEnoughPossibilities exactly when some team present has more members than
\* there are members outside it, and lets solving proceed exactly otherwise.
C2_FeasibilityCheck ==
    [][pc[1] = "calc" =>
        /\ (result'[1] = Err("NotEnoughPossibilities")) <=> TeamTooLarge(draft[1].members)
        /\ (pc'[1] = "draw") <=> ~TeamTooLarge(draft[1].members)]_vars

\* a registry was refused by the check
C2_Witness == pc[1] = "idle" /\ result[1] = Err("NotEnoughPossibilities")

\* C3: on registries of uniquely named members the feasibility check passes if
\* and only if a valid assignment exists (a bijection on the members without
\* self edge and without same-team edge).
C3_CheckIffAssignmentExists ==
    [][pc[1] = "calc" => ((pc'[1] = "draw") <=> ExistsValid(draft[1].members))]_vars

\* the check has passed a registry of four members whose largest team is half of it
C3_Witness ==
    /\ pc[1] = "draw"
    /\ Cardinality(Registry) = 4
    /\ \E m \in Registry : team_len(Registry, m.team) = 2
    /\ ExistsValid(Registry)

C10_NoRestart == AllDistinctTeams(Registry) => depth[1] = 0

\* C10 as amended: on a registry of two or more members, all in different
\* teams, the feasibility check passes and the solver hands back nothing but
\* success; an attempt restarts only with three or more members, at the last
\* member in processing order, when the one member not yet used is that member.
C10_RestartOnlyAtLast ==
    [][(AllDistinctTeams(draft[1].members) /\ Cardinality(draft[1].members) >= 2) =>
        /\ pc[1] = "calc" => pc'[1] = "draw"
        /\ pc[1] = "draw" => pc'[1] \in {"draw", "calc", "post"}
        /\ (pc[1] = "draw" /\ pc'[1] = "calc") =>
            /\ Cardinality(draft[1].members) >= 3
            /\ Len(used[1]) = Cardinality(draft[1].members) - 1
            /\ draft[1].members \ Range(used[1]) = {Current(1)}]_vars

\* three members in three teams, solved after a restart
C10_Witness ==
    /\ pc[1] = "post"
    /\ AllDistinctTeams(Registry)
    /\ Cardinality(Registry) = 3
    /\ depth[1] = 1

---------------------------------------------------------------------------
(* Properties of the server (Spec, SpecConc) *)

\* from_form takes a well-formed team item that completes an entry whose name a
\* member of the draft already has
DuplicateTaken(p) ==
    /\ pc[p] = "items"
    /\ name[p] # None
    /\ \E m \in draft[p].members : Some(m.name) = name[p]
    /\ name'[p] = None
    /\ pc'[p] # "calc"
    /\ result'[p] \notin {Err("InvalidData"), Panicked}

\* C5: a submission in which a name appears twice is rejected with
\* MemberAlreadyDefined and its draft is dropped; the second entry is neither
\* merged nor kept.
C5_DuplicateRejected ==
    [][\A p \in Workers : DuplicateTaken(p) =>
        /\ result'[p] = Err("MemberAlreadyDefined")
        /\ pc'[p] = "idle"
        /\ drafts' = drafts]_vars

\* C6: in every draft that is created or stored no two members share a name.
C6_UniqueNames ==
    /\ \A p \in Workers : pc[p] = "post" => UniqueNames(draft[p].members)
    /\ \A i \in 1..Len(drafts) : UniqueNames(drafts[i].members)

\* C7: every draft in the store is fully solved (each of its members has a
\* ticket), and a submission that is rejected leaves the store as it was.
C7_StoredDraftsSolved ==
    /\ [](\A i \in 1..Len(drafts) : \A m \in drafts[i].members : m.ticket # None)
    /\ [][\A p \in Workers :
            (result'[p] # result[p] /\ result'[p].tag \in {"Err", "Panic"})
            => drafts' = drafts]_vars

\* a submission was rejected while the store held a draft of three members
C7_Witness ==
    /\ Len(drafts) = 1
    /\ Cardinality(drafts[1].members) = 3
    /\ \E p \in Workers : result[p].tag = "Err" /\ pc[p] = "idle"

\* C8: CalculateAgain never leaves calculate_tickets: the only errors a caller
\* sees are InvalidData and NotEnoughPossibilities, and once the feasibility
\* check has passed the request goes on to success.
C8_RestartStaysInside ==
    /\ [](\A p \in Workers : result[p].tag = "Err" =>
            result[p].err \in {"InvalidData", "NotEnoughPossibilities"})
    /\ [][\A p \in Workers :
            (pc[p] = "draw" \/ (pc[p] = "calc" /\ depth[p] > 0))
            => pc'[p] \in {"draw", "calc", "post"}]_vars

\* from_form holds a solved draft whose solver had restarted
C8_Witness == pc[1] = "post" /\ depth[1] > 0 /\ result[1] = Pending

\* C9: on an infeasible registry calculate_tickets returns
\* NotEnoughPossibilities at once: nothing was drawn, no member has a ticket,
\* no attempt is started and nothing is stored.
C9_InfeasibleRejectedAtOnce ==
    [][\A p \in Workers : (pc[p] = "calc" /\ TeamTooLarge(draft[p].members)) =>
        /\ used[p] = <<>> /\ calulated[p] = {} /\ depth[p] = 0
        /\ \A m \in draft[p].members : m.ticket = None
        /\ result'[p] = Err("NotEnoughPossibilities")
        /\ pc'[p] = "idle"
        /\ drafts' = drafts]_vars

\* a form was refused as infeasible and the store is empty
C9_Witness ==
    /\ pc[1] = "idle"
    /\ result[1] = Err("NotEnoughPossibilities")
    /\ drafts = <<>>

---------------------------------------------------------------------------
(* Properties of the store and its readers (SpecStore, SpecLookup) *)

\* the step is answered by GET handler h with an answer other than the latest one
Answered(h) ==
    /\ response'.handler = h
    /\ \/ response.handler # h
       \/ response'.draft # response.draft
       \/ response'.name # response.name
       \/ response'.json # response.json

\* C11: under every interleaving of POST requests with GET requests for the
\* list and for single drafts the store is append-only: a step never removes,
\* reorders or changes a stored draft; a post returns the index at which its
\* draft now stands, an index no earlier post was given; and api_draft(id)
\* answers the draft standing at that index, which is the one posted there.
C11_AppendOnly ==
    /\ [][/\ Len(drafts') >= Len(drafts)
          /\ \A i \in 1..Len(drafts) : drafts'[i] = drafts[i]
          /\ \A p \in Workers : (pc[p] = "post" /\ pc'[p] = "idle") =>
                /\ result'[p] = Posted(Len(drafts))
                /\ Len(drafts') = Len(drafts) + 1
                /\ Get(drafts', result'[p].id) = Some(draft[p])
          /\ Answered("api_draft") =>
                /\ response'.json = Get(drafts, response'.draft)
                /\ drafts' = drafts
          /\ Answered("api_drafts") =>
                /\ response'.json = Some(drafts)
                /\ drafts' = drafts]_vars
    /\ [](\A p \in Workers : result[p].tag = "Ok" =>
            /\ result[p].id < Len(drafts)
            /\ \A q \in Workers \ {p} : result[q].tag = "Ok" => result[q].id # result[p].id)

\* both workers have posted, under different indices, and the draft posted
\* second was fetched after a list that was read when the store held one draft
C11_Witness ==
    /\ Len(drafts) = 2
    /\ drafts[1] # drafts[2]
    /\ result[1].tag = "Ok" /\ result[2].tag = "Ok"
    /\ result[1].id # result[2].id
    /\ response = Answer("api_draft", 1, <<>>, Some(drafts[2]))

\* C12: api_draft_ticket answers, for every member of the draft asked for, the
\* ticket the solve gave that member when asked for the member's name; it
\* answers None for a name no member of the draft has and for an index that
\* is not in the store; and it leaves the store as it is.
C12_LookupReturnsRecipient ==
    [][Answered("api_draft_ticket") =>
        /\ drafts' = drafts
        /\ IF Get(drafts, response'.draft) = None
           THEN response'.json = None
           ELSE LET members == Unwrap(Get(drafts, response'.draft)).members
                IN  /\ response'.name \notin NamesOf(members) => response'.json = None
                    /\ \A member \in members :
                        member.name = response'.name => response'.json = member.ticket]_vars

---------------------------------------------------------------------------
(* Properties of the errors *)

\* C13: whenever from_form gives up inside the loop over the items, the case
\* of a team tag that is no unsigned integer included, the request ends with
\* the error value InvalidData (it does not panic) and the store is as it was.
C13_UnparseableTeamRejected ==
    [][\A p \in Workers : (pc[p] = "items" /\ pc'[p] = "idle") =>
        /\ result'[p] = Err("InvalidData")
        /\ drafts' = drafts]_vars

\* C14: the attempts of one submission are bounded by a ceiling: an attempt
\* that fails at the ceiling (here: with MaxDepth restarts behind it) ends the
\* request with the exhaustion error and starts no further attempt.
C14_AttemptsCeiling ==
    [][\A p \in Workers :
        (pc[p] = "draw" /\ pc'[p] \notin {"draw", "post"} /\ depth[p] = MaxDepth) =>
            /\ pc'[p] = "idle"
            /\ result'[p] = Err("Exhausted")]_vars

---------------------------------------------------------------------------
(* Frame properties of the solver *)

\* C15: when an attempt fails because the member served has no candidate,
\* nothing of the attempt is left: the draft is as it was before the attempt
\* and no member of it has a ticket, the used vector and the members produced
\* so far are empty again, and the next attempt starts from exactly that.
C15_FailedAttemptDiscarded ==
    [][\A p \in Workers :
        /\ (pc[p] = "draw" /\ pc'[p] = "calc") =>
            /\ Entries(draft[p].members, Current(p), used[p]) = {}
            /\ draft'[p] = draft[p]
            /\ \A m \in draft'[p].members : m.ticket = None
            /\ used'[p] = <<>>
            /\ calulated'[p] = {}
        /\ (pc[p] = "calc" /\ pc'[p] = "draw") =>
            /\ draft'[p] = draft[p]
            /\ \A m \in draft'[p].members : m.ticket = None
            /\ used'[p] = <<>>
            /\ calulated'[p] = {}]_vars

\* a new attempt stands at its start after an attempt on three members failed
C15_Witness ==
    /\ pc[1] = "draw"
    /\ depth[1] > 0
    /\ used[1] = <<>>
    /\ calulated[1] = {}
    /\ Cardinality(draft[1].members) = 3
    /\ \A m \in draft[1].members : m.ticket = None

---------------------------------------------------------------------------
(* Independence of concurrent requests (SpecConc) *)

\* the names the forms of worker p carry
FormNames(p) == {item[2] : item \in {i \in ItemsConc(p) : i[1] = "name"}}

\* the locals of worker p's request
Locals(p) == <<pc[p], draft[p], name[p], taken[p], order[p], used[p], calulated[p], depth[p], result[p]>>

\* C16: requests solved at the same time do not influence each other: a step
\* of one request changes no local of another; whatever a request holds
\* (members, used members, produced members) comes from its own form; and the
\* draft a request stores has exactly the (name, team) pairs its solver was
\* started on, every ticket in it naming a member of that same draft.
C16_SolvesIndependent ==
    /\ [](\A p \in Workers :
            \A m \in draft[p].members \cup calulated[p] \cup Range(used[p]) \cup Range(order[p]) :
                /\ m.name \in FormNames(p)
                /\ m.ticket \subseteq NamesOf(draft[p].members))
    /\ [][\A p \in Workers :
            /\ (pc'[p] # pc[p] \/ draft'[p] # draft[p] \/ name'[p] # name[p]
                    \/ used'[p] # used[p]) =>
                \A q \in Workers \ {p} : Locals(q)' = Locals(q)
            /\ (pc[p] = "post" /\ pc'[p] = "idle") =>
                LET stored == drafts'[Len(drafts')]
                IN  /\ Pairs(stored.members) = Pairs(Range(order[p]))
                    /\ \A m \in stored.members :
                        m.ticket # None /\ m.ticket \subseteq NamesOf(stored.members)]_vars

\* both requests hold a solved draft at the same time, one of them after a restart
C16_Witness ==
    /\ pc[1] = "post" /\ pc[2] = "post"
    /\ Cardinality(draft[1].members) >= 2
    /\ Cardinality(draft[2].members) >= 3
    /\ depth[2] > 0

---------------------------------------------------------------------------
(* Title and date *)

\* C17: a draft exists only with a title and a date: every draft that from_form
\* returns, and every draft in the store, has a non-empty title and a
\* non-empty date (a form that leaves one of them out is rejected instead).
C17_TitleAndDateRequired ==
    /\ \A p \in Workers : pc[p] = "post" =>
            draft[p].title # <<>> /\ draft[p].date # <<>>
    /\ \A i \in 1..Len(drafts) : drafts[i].title # <<>> /\ drafts[i].date # <<>>

---------------------------------------------------------------------------
(* What the draws can reach (SpecSolve) *)

\* the valid assignments on a set of members: the bijections without self edge
\* and without same-team edge
ValidAssignments(members) ==
    {f \in [members -> members] :
        /\ \A m, o \in members : f[m] = f[o] => m = o
        /\ \A m \in members : f[m] # m /\ f[m].team # m.team}

\* the draws of the running attempt of worker 1 are those of assignment f
Follows(f) == \A i \in 1..Len(used[1]) : used[1][i] = f[order[1][i]]

\* C18: once the feasibility check has passed, whatever the order in which
\* the members are served, every valid assignment is a possible outcome: an
\* attempt whose draws so far are those of a valid assignment can draw the
\* assignment's next ticket too, and at its end it has produced exactly that
\* assignment; so every attempt, the first and each one after a restart, has
\* at its start a sequence of draws that completes it without a restart.
C18_EveryAssignmentReachable ==
    pc[1] = "draw" =>
        /\ ValidAssignments(draft[1].members) # {}
        /\ used[1] = <<>> => Completable(draft[1].members, order[1], <<>>)
        /\ \A f \in ValidAssignments(draft[1].members) : Follows(f) =>
                IF Len(used[1]) < Len(order[1])
                THEN ENABLED Draw(1, f[Current(1)])
                ELSE calulated[1] = {WithTicket(m, f[m]) : m \in draft[1].members}

\* after a restart an attempt on four members, two of them in one team, has
\* drawn three tickets of a valid assignment
C18_Witness ==
    /\ pc[1] = "draw"
    /\ depth[1] > 0
    /\ Cardinality(draft[1].members) = 4
    /\ ~AllDistinctTeams(draft[1].members)
    /\ Len(used[1]) = 3
    /\ \E f \in ValidAssignments(draft[1].members) : Follows(f)

\* C19: calculate_tickets changes tickets only: from its call to its
\* successful return, through every restart, the title, the date, the number
\* of members and the set of their (name, team) pairs stay what they were, so
\* the solved draft has the pairs of the registry the solver was called on.
C19_SolveChangesOnlyTickets ==
    /\ [][\A p \in Workers :
            (pc[p] \in {"calc", "draw"} /\ pc'[p] \in {"calc", "draw", "post"}) =>
                /\ draft'[p].title = draft[p].title
                /\ draft'[p].date = draft[p].date
                /\ Pairs(draft'[p].members) = Pairs(draft[p].members)
                /\ Cardinality(draft'[p].members) = Cardinality(draft[p].members)]_vars
    /\ [](\A p \in Workers : pc[p] = "post" =>
            /\ Pairs(draft[p].members) = Pairs(Range(order[p]))
            /\ Cardinality(draft[p].members) = Len(order[p]))

\* a draft of four members, solved after a restart, with its title and date
C19_Witness ==
    /\ pc[1] = "post"
    /\ depth[1] > 0
    /\ draft[1].title = <<"T">>
    /\ draft[1].date = <<"D">>
    /\ Cardinality(draft[1].members) = 4
    /\ Pairs(draft[1].members) = Pairs(Registry)
    /\ \A m \in draft[1].members : m.ticket # None

====
